---- MODULE Spec2Model ----
(***************************************************************************)
(* The Saga of Eldoria (src/the_game.py): the Character model, the items,  *)
(* the Combat class (damage resolution, player actions, enemy AI, the turn *)
(* loop of start_combat) and the stage progression of World / game_loop.   *)
(***************************************************************************)
EXTENDS Integers, FiniteSets, Sequences, TLC

VARIABLES
    player,        \* the player Character (persists over the whole session)
    enemy,         \* the enemy Character of the current encounter
    pc,            \* position of the program
    stage,         \* World.stage
    user_input,    \* start_combat: the action token of the current turn (line 340)
    action_spent,  \* start_combat: the flag of the inner loop (line 327)
    combat_result, \* value returned by the last start_combat ("none" before)
    item_name,     \* _player_use_item: the item name read (line 222)
    ending,        \* argument of World.end_game, 0 while no ending was shown
    rounds,        \* enemy turns taken so far (counted up to RoundLimit)
    ret            \* the last direct call of a method and what it returned

vars == <<player, enemy, pc, stage, user_input, action_spent, item_name,
          combat_result, ending, rounds, ret>>

Max(a, b) == IF a >= b THEN a ELSE b
Min(a, b) == IF a <= b THEN a ELSE b

\* ------------------------------------------------------------ constants

HealthPotion == "Health Potion"
ScrollOfProtection == "Scroll of Protection"
ElvenBlade == "Elven Blade"
ArcaneFocus == "Arcane Focus"
ItemNames == {HealthPotion, ScrollOfProtection, ElvenBlade, ArcaneFocus}
PermanentItems == {ElvenBlade, ArcaneFocus}

PotionHeal == 40
ScrollBuff == 15
WeaponBoost == 5
RoarDebuff == 5

D6 == 1..6
D4 == 1..4
DrainDie == 4..10
D100 == 1..100

\* ------------------------------------------------------------ Character

Character(name, strength, agility, magic, max_hp, ability_name) ==
    [name |-> name, max_hp |-> max_hp, current_hp |-> max_hp,
     strength |-> strength, agility |-> agility, magic |-> magic,
     ability_name |-> ability_name,
     is_defending |-> FALSE, temp_defense_buff |-> 0,
     inventory |-> {}, weapon_boost |-> 0]

Warrior == Character("Warrior", 14, 8, 5, 120, "Shield Bash")
Mage == Character("Mage", 6, 9, 15, 90, "Arcane Bolt")
Rogue == Character("Rogue", 10, 13, 7, 100, "Sneak Attack")

MinorBandit == Character("Minor Bandit", 8, 10, 5, 60, "Quick Strike")
BanditKing == Character("Bandit King", 12, 9, 7, 150, "King's Roar")
ArchLich == Character("Arch-Lich, Final Boss", 10, 15, 18, 200, "Arcane Drain")
NoEnemy == Character("none", 0, 0, 0, 0, "none")

\* take_damage: the damage after the defend halving (lines 32-35)
DefendedDamage(c, damage) ==
    IF c.is_defending THEN Max(1, damage \div 2) ELSE damage

\* take_damage without the floor at 1 after the buff
take_damage_ret_unfloored(c, damage) ==
    DefendedDamage(c, damage) - c.temp_defense_buff

\* take_damage: the value subtracted and returned (lines 38, 45)
take_damage_ret(c, damage) ==
    Max(1, DefendedDamage(c, damage) - c.temp_defense_buff)

\* take_damage leaving the buff in place after it absorbed damage
take_damage_keeps_buff(c, damage) ==
    [c EXCEPT !.is_defending = FALSE,
              !.current_hp = Max(0, @ - take_damage_ret(c, damage))]

\* take_damage: the Character afterwards (lines 29-44)
take_damage(c, damage) ==
    [c EXCEPT !.is_defending = FALSE,
              !.temp_defense_buff = IF @ > 0 THEN 0 ELSE @,
              !.current_hp = Max(0, @ - take_damage_ret(c, damage))]

\* heal without the cap at max_hp
heal_uncapped(c, amount) ==
    [c EXCEPT !.current_hp = @ + amount]

heal(c, amount) ==
    [c EXCEPT !.current_hp = Min(c.max_hp, @ + amount)]

\* ------------------------------------------------------------ Items

use_health_potion(p) == heal(p, PotionHeal)

use_scroll_of_protection(p) == [p EXCEPT !.temp_defense_buff = ScrollBuff]

use_elven_blade(p) ==
    IF p.weapon_boost = 0
    THEN [p EXCEPT !.weapon_boost = WeaponBoost, !.strength = @ + 5]
    ELSE p

\* the Arcane Focus without the weapon_boost guard
use_arcane_focus_unguarded(p) ==
    [p EXCEPT !.magic = @ + 5, !.weapon_boost = WeaponBoost]

use_arcane_focus(p) ==
    IF p.weapon_boost = 0
    THEN [p EXCEPT !.magic = @ + 5, !.weapon_boost = WeaponBoost]
    ELSE p

\* Item.effect of the four module-level items (lines 120-123)
ItemEffect(item, target) ==
    CASE item = HealthPotion -> use_health_potion(target)
      [] item = ScrollOfProtection -> use_scroll_of_protection(target)
      [] item = ElvenBlade -> use_elven_blade(target)
      [] item = ArcaneFocus -> use_arcane_focus(target)

\* Item.use: the value returned (every item has an effect function)
ItemUseRet(item, target) == item \in ItemNames

\* Item.use: the target afterwards
ItemUse(item, target) ==
    IF item \in ItemNames THEN ItemEffect(item, target) ELSE target

\* ------------------------------------------------------------ Combat

\* random.randint(1, 100) <= 5 + attacker.agility / 10, over every roll
CritOutcomes(attacker) == {roll * 10 <= 50 + attacker.agility : roll \in D100}

\* random.randint(1, 100) <= defender.agility / 5, over every roll
DodgeOutcomes(defender) == {roll * 5 <= defender.agility : roll \in D100}

\* random.randint(1, 100) <= 20 + agility / 10, over every roll
SneakCritOutcomes(attacker) ==
    {roll * 10 <= 200 + attacker.agility : roll \in D100}

\* random.randint(1, 100) <= 10, over every roll
MissOutcomes == {roll <= 10 : roll \in D100}

\* _calculate_damage: base damage handed to take_damage (lines 139-145)
BaseDamage(die, stat_multiplier, is_crit) ==
    IF is_crit THEN die * stat_multiplier * 2 ELSE die * stat_multiplier

\* _calculate_damage applying the damage whatever the dodge check says
calculate_damage_no_dodge(defender, stat_multiplier, die, is_crit, dodged) ==
    take_damage(defender, BaseDamage(die, stat_multiplier, is_crit))

\* _calculate_damage: the defender afterwards
calculate_damage(defender, stat_multiplier, die, is_crit, dodged) ==
    IF dodged THEN defender
    ELSE take_damage(defender, BaseDamage(die, stat_multiplier, is_crit))

\* _calculate_damage: the value returned
calculate_damage_ret(defender, stat_multiplier, die, is_crit, dodged) ==
    IF dodged THEN 0
    ELSE take_damage_ret(defender, BaseDamage(die, stat_multiplier, is_crit))

\* the roar's value taken off the player's own power stat
effective_strength_debuffed(p) ==
    p.strength + p.weapon_boost - p.temp_defense_buff

\* _player_attack: effective_strength (line 163)
effective_strength(p) == p.strength + p.weapon_boost

\* _player_magic, Arcane Bolt: int(magic * 1.5) (line 196)
effective_magic(p) == (p.magic * 3) \div 2

\* Shield Bash: max(1, randint(1, 6) * effective strength // 2) (lines 183-184)
counter_damage(p, die) == Max(1, (die * effective_strength(p)) \div 2)

\* tokens the prompts can read besides the recognised ones
BogusInput == "bogus"
NoInput == "none"
ItemChoices == ItemNames \cup {"Cancel", BogusInput}

\* a session is explored up to MaxTurns enemy turns, a single encounter up
\* to MaxRounds enemy turns
MaxTurns == 1
MaxRounds == 2
RoundLimit == Max(MaxTurns, MaxRounds)

world == <<stage, ending, rounds>>

NoCall == [call |-> "none", arg |-> 0, value |-> 0]

\* line 320: the loop test of start_combat, and the return of line 374
LoopCheck ==
    /\ pc = "loop"
    /\ IF player.current_hp > 0 /\ enemy.current_hp > 0
       THEN /\ pc' = "await"
            /\ action_spent' = FALSE
            /\ combat_result' = combat_result
       ELSE /\ pc' = "after_combat"
            /\ combat_result' = (player.current_hp > 0)
            /\ action_spent' = action_spent
    /\ UNCHANGED <<player, enemy, user_input, item_name, world, ret>>

\* "attack": _player_attack (lines 160-164), then line 354
PlayerAttack ==
    /\ pc = "await"
    /\ \E die \in D6, is_crit \in CritOutcomes(player),
          dodged \in DodgeOutcomes(enemy) :
          enemy' = calculate_damage(enemy, effective_strength(player),
                                    die, is_crit, dodged)
    /\ user_input' = "attack"
    /\ action_spent' = TRUE
    /\ pc' = "check"
    /\ UNCHANGED <<player, item_name, combat_result, world, ret>>

\* "defend" leaving action_spent unset: the prompt comes back
PlayerDefendFree ==
    /\ pc = "await"
    /\ player' = [player EXCEPT !.is_defending = TRUE]
    /\ user_input' = "defend"
    /\ UNCHANGED <<enemy, pc, action_spent, item_name, combat_result,
                   world, ret>>

\* "defend": _player_defend (lines 166-169), then line 354
PlayerDefend ==
    /\ pc = "await"
    /\ player' = [player EXCEPT !.is_defending = TRUE]
    /\ user_input' = "defend"
    /\ action_spent' = TRUE
    /\ pc' = "check"
    /\ UNCHANGED <<enemy, item_name, combat_result, world, ret>>

\* _player_magic, Shield Bash branch (lines 174-185)
ShieldBash(die) ==
    /\ player' = [player EXCEPT !.temp_defense_buff = 0, !.is_defending = TRUE]
    /\ enemy' = take_damage(enemy, counter_damage(player, die))

\* Arcane Bolt returning on a miss before the buff is reset
ArcaneBoltMissKeepsBuff(missed, die, is_crit, dodged) ==
    /\ player' = IF missed THEN player
                 ELSE [player EXCEPT !.temp_defense_buff = 0]
    /\ enemy' = IF missed THEN enemy
                ELSE calculate_damage(enemy, effective_magic(player),
                                      die, is_crit, dodged)

\* Arcane Bolt going on to the damage resolution after a miss roll
ArcaneBoltNoMiss(missed, die, is_crit, dodged) ==
    /\ player' = [player EXCEPT !.temp_defense_buff = 0]
    /\ enemy' = calculate_damage(enemy, effective_magic(player),
                                 die, is_crit, dodged)

\* _player_magic, Arcane Bolt branch (lines 174, 187-197)
ArcaneBolt(missed, die, is_crit, dodged) ==
    /\ player' = [player EXCEPT !.temp_defense_buff = 0]
    /\ enemy' = IF missed THEN enemy
                ELSE calculate_damage(enemy, effective_magic(player),
                                      die, is_crit, dodged)

\* Sneak Attack sent through the damage resolution, dodge check included
SneakAttackDodgeable(die, is_crit) ==
    /\ player' = [player EXCEPT !.temp_defense_buff = 0]
    /\ \E dodged \in DodgeOutcomes(enemy) :
          enemy' = IF dodged THEN enemy
                   ELSE take_damage(enemy,
                            BaseDamage(die, effective_strength(player),
                                       is_crit))

\* _player_magic, Sneak Attack branch (lines 174, 199-211)
SneakAttack(die, is_crit) ==
    /\ player' = [player EXCEPT !.temp_defense_buff = 0]
    /\ enemy' = take_damage(enemy,
                    BaseDamage(die, effective_strength(player), is_crit))

\* "magic": _player_magic (lines 171-211), then line 354
PlayerMagic ==
    /\ pc = "await"
    /\ \/ /\ player.ability_name = "Shield Bash"
          /\ \E die \in D6 : ShieldBash(die)
       \/ /\ player.ability_name = "Arcane Bolt"
          /\ \E missed \in MissOutcomes, die \in D6,
                is_crit \in CritOutcomes(player),
                dodged \in DodgeOutcomes(enemy) :
                ArcaneBolt(missed, die, is_crit, dodged)
       \/ /\ player.ability_name = "Sneak Attack"
          /\ \E die \in D6, is_crit \in SneakCritOutcomes(player) :
                SneakAttack(die, is_crit)
    /\ user_input' = "magic"
    /\ action_spent' = TRUE
    /\ pc' = "check"
    /\ UNCHANGED <<item_name, combat_result, world, ret>>

\* "stats" treated like the other actions: the turn is spent
PlayerStatsSpendsTurn ==
    /\ pc = "await"
    /\ user_input' = "stats"
    /\ action_spent' = TRUE
    /\ pc' = "check"
    /\ UNCHANGED <<player, enemy, item_name, combat_result, world, ret>>

\* "stats": the free action of lines 349-351 (get_stats only reads)
PlayerStats ==
    /\ pc = "await"
    /\ user_input' = "stats"
    /\ UNCHANGED <<player, enemy, pc, action_spent, item_name,
                   combat_result, world, ret>>

\* an unrecognised token: ValueError raised and caught (lines 355-358)
InvalidCommand ==
    /\ pc = "await"
    /\ user_input' = BogusInput
    /\ UNCHANGED <<player, enemy, pc, action_spent, item_name,
                   combat_result, world, ret>>

\* "item": entry of _player_use_item (lines 213-218); with an empty
\* inventory it returns None and the turn is not spent (line 347)
PlayerItem ==
    /\ pc = "await"
    /\ user_input' = "item"
    /\ pc' = IF player.inventory = {} THEN "await" ELSE "item"
    /\ UNCHANGED <<player, enemy, action_spent, item_name,
                   combat_result, world, ret>>

\* no item is removed after a use
RemovedNever(name) == FALSE

\* whether _player_use_item removes the item after a use (line 237)
RemovedAfterUse(name) == name \notin PermanentItems

\* the guard of line 231 left out
AlreadyEquippedUnchecked(p, name) == FALSE

\* whether the guard of line 231 refuses the item
AlreadyEquipped(p, name) == name \in PermanentItems /\ p.weapon_boost # 0

\* one pass of the loop of _player_use_item (lines 219-245)
ItemChoice ==
    /\ pc = "item"
    /\ \E name \in ItemChoices :
        /\ IF name = "Cancel"
           THEN /\ pc' = "await"
                /\ UNCHANGED <<player, action_spent>>
           ELSE IF name \in player.inventory
                   /\ ~AlreadyEquipped(player, name)
                   /\ ItemUseRet(name, player)
           THEN /\ player' =
                     [ItemUse(name, player) EXCEPT !.inventory =
                         IF RemovedAfterUse(name) THEN @ \ {name} ELSE @]
                /\ action_spent' = TRUE
                /\ pc' = "check"
           ELSE /\ pc' = "item"
                /\ UNCHANGED <<player, action_spent>>
        /\ item_name' = IF pc' = "await" THEN NoInput ELSE name
    /\ UNCHANGED <<enemy, user_input, combat_result, world, ret>>

\* the checks of lines 360-368 without the test of the enemy's HP
CheckTerminationPlayerOnly ==
    /\ pc = "check"
    /\ IF player.current_hp <= 0
       THEN pc' = "after_combat" /\ combat_result' = FALSE
       ELSE pc' = "enemy" /\ combat_result' = combat_result
    /\ user_input' = IF pc' = "enemy" THEN user_input ELSE NoInput
    /\ item_name' = NoInput
    /\ UNCHANGED <<player, enemy, action_spent, world, ret>>

\* lines 360-368: the checks between the player's and the enemy's turn
CheckTermination ==
    /\ pc = "check"
    /\ IF player.current_hp <= 0
       THEN pc' = "after_combat" /\ combat_result' = FALSE
       ELSE IF enemy.current_hp <= 0
       THEN pc' = "after_combat" /\ combat_result' = TRUE
       ELSE pc' = "enemy" /\ combat_result' = combat_result
    /\ user_input' = IF pc' = "enemy" THEN user_input ELSE NoInput
    /\ item_name' = NoInput
    /\ UNCHANGED <<player, enemy, action_spent, world, ret>>

\* the standard attack of the enemy (lines 259, 289, 308)
EnemyStandard(p, die, is_crit, dodged) ==
    calculate_damage(p, enemy.strength, die, is_crit, dodged)

\* Quick Strike (lines 270-277): the defend flag is put back afterwards
QuickStrike(p, die) ==
    [take_damage([p EXCEPT !.is_defending = FALSE], die * enemy.strength)
        EXCEPT !.is_defending = p.is_defending]

\* King's Roar (lines 285-289)
KingsRoar(p, die, is_crit, dodged) ==
    EnemyStandard([p EXCEPT !.temp_defense_buff = RoarDebuff],
                  die, is_crit, dodged)

\* Arcane Drain: the damage reported by take_damage (lines 294-297)
DrainDamage(p, die) == take_damage_ret(p, die * enemy.magic)

\* the Lich healing by the whole damage instead of half of it
DrainHealFull(e, damage_taken) ==
    [e EXCEPT !.current_hp = Min(e.max_hp, @ + damage_taken)]

\* Arcane Drain: the Lich after healing itself (lines 301-302)
DrainHeal(e, damage_taken) ==
    [e EXCEPT !.current_hp = Min(e.max_hp, @ + damage_taken \div 2)]

\* _enemy_turn, line 252: the player as the enemy's move finds it
Undefended(p) == [p EXCEPT !.is_defending = FALSE]

\* _enemy_turn (lines 247-261) with _enemy_special_move (lines 263-308)
EnemyTurn ==
    /\ pc = "enemy"
    /\ rounds' = Min(rounds + 1, RoundLimit)
    /\ user_input' = NoInput
    /\ LET p == Undefended(player) IN
       \/ \E die \in D6, is_crit \in CritOutcomes(enemy),
             dodged \in DodgeOutcomes(p) :
             /\ player' = EnemyStandard(p, die, is_crit, dodged)
             /\ enemy' = enemy
       \/ /\ enemy.name = "Minor Bandit"
          /\ \E die \in D4 : player' = QuickStrike(p, die)
          /\ enemy' = enemy
       \/ /\ enemy.name = "Bandit King"
          /\ \E die \in D6, is_crit \in CritOutcomes(enemy),
                dodged \in DodgeOutcomes(p) :
                player' = KingsRoar(p, die, is_crit, dodged)
          /\ enemy' = enemy
       \/ /\ enemy.name = "Arch-Lich, Final Boss"
          /\ \E die \in DrainDie :
                /\ player' = take_damage(p, die * enemy.magic)
                /\ enemy' = DrainHeal(enemy, DrainDamage(p, die))
    /\ pc' = "loop"
    /\ UNCHANGED <<action_spent, item_name, combat_result,
                   stage, ending, ret>>

\* ------------------------------------------------------------ World

\* World._get_item (lines 384-392): inventory keys are unique
get_item(p, item) == [p EXCEPT !.inventory = @ \cup {item}]

\* the creature of stage 1 (lines 436-451); "none" is option B
CreatureBoosts == {"strength", "agility", "magic", "none"}

creature_boost(p, stat_boost) ==
    CASE stat_boost = "strength" -> [p EXCEPT !.strength = @ + 1]
      [] stat_boost = "agility" -> [p EXCEPT !.agility = @ + 1]
      [] stat_boost = "magic" -> [p EXCEPT !.magic = @ + 1]
      [] OTHER -> p

\* the item of the hidden passage of stage 2 (lines 488-491)
passage_item(p) == IF p.name = "Mage" THEN ArcaneFocus ELSE ElvenBlade

combat == <<user_input, action_spent, item_name>>

\* stage_1 / stage_2 up to the call of start_combat (lines 418-419, 466-467)
StageEncounter ==
    /\ pc = "stage"
    /\ stage \in {1, 2}
    /\ enemy' = IF stage = 1 THEN MinorBandit ELSE BanditKing
    /\ pc' = "loop"
    /\ UNCHANGED <<player, combat, combat_result, world, ret>>

\* game_loop after a stage returned False (lines 628-641)
GameLost ==
    /\ pc' = "lost"
    /\ enemy' = NoEnemy
    /\ UNCHANGED <<player, combat, combat_result, world, ret>>

\* stage_1 after the encounter (lines 421-454)
Stage1After ==
    /\ pc = "after_combat"
    /\ stage = 1
    /\ IF ~combat_result
       THEN GameLost
       ELSE /\ \E stat_boost \in CreatureBoosts :
                 player' = creature_boost(get_item(player, HealthPotion),
                                          stat_boost)
            /\ stage' = 2
            /\ pc' = "stage"
            /\ enemy' = NoEnemy
            /\ UNCHANGED <<combat, combat_result, ending, rounds, ret>>

\* stage_2 after the encounter (lines 469-499)
Stage2After ==
    /\ pc = "after_combat"
    /\ stage = 2
    /\ IF ~combat_result
       THEN GameLost
       ELSE /\ LET looted == get_item(get_item(player, ScrollOfProtection),
                                      HealthPotion) IN
               \E choice \in {"A", "B"} :
                 player' = IF choice = "A"
                           THEN get_item(looted, passage_item(player))
                           ELSE looted
            /\ stage' = 3
            /\ pc' = "stage"
            /\ enemy' = NoEnemy
            /\ UNCHANGED <<combat, combat_result, ending, rounds, ret>>

\* World.end_game (lines 563-577)
end_game(ending_number) ==
    /\ ending' = ending_number
    /\ pc' = "ended"
    /\ UNCHANGED <<player, stage, combat, combat_result, rounds, ret>>

\* stage_3 up to the final choice (lines 511-559)
Stage3Choice ==
    /\ pc = "stage"
    /\ stage = 3
    /\ \/ /\ enemy' = ArchLich
          /\ pc' = "loop"
          /\ UNCHANGED <<player, combat, combat_result, world, ret>>
       \/ IF player.magic >= 15 \/ player.weapon_boost = 5
          THEN end_game(2) /\ enemy' = enemy
          ELSE GameLost
       \/ IF 2 * player.current_hp < player.max_hp
          THEN end_game(3) /\ enemy' = enemy
          ELSE GameLost

\* stage_3 returning True after the victory, end_game not leaving the
\* program: game_loop runs stage 3 again
Stage3AfterReturns ==
    /\ pc = "after_combat"
    /\ stage = 3
    /\ IF combat_result
       THEN /\ pc' = "stage"
            /\ ending' = 1
            /\ enemy' = NoEnemy
            /\ UNCHANGED <<player, stage, combat, combat_result, rounds, ret>>
       ELSE GameLost

\* stage_3 after the encounter (lines 530-533)
Stage3After ==
    /\ pc = "after_combat"
    /\ stage = 3
    /\ IF combat_result
       THEN end_game(1) /\ enemy' = NoEnemy
       ELSE GameLost

\* player_setup (lines 581-611): the class chosen, the starting inventory
PlayerSetup(class) ==
    [class EXCEPT !.inventory = {HealthPotion, ScrollOfProtection}]

Classes == {Warrior, Mage, Rogue}

Init ==
    /\ player \in {PlayerSetup(class) : class \in Classes}
    /\ enemy = NoEnemy
    /\ pc = "stage"
    /\ stage = 1
    /\ user_input = NoInput
    /\ action_spent = FALSE
    /\ item_name = NoInput
    /\ combat_result = FALSE
    /\ ending = 0
    /\ rounds = 0
    /\ ret = NoCall

\* the steps of start_combat other than the enemy's turn
PlayerSteps ==
    \/ LoopCheck \/ PlayerAttack \/ PlayerDefend \/ PlayerMagic
    \/ PlayerStats \/ InvalidCommand \/ PlayerItem \/ ItemChoice
    \/ CheckTermination

\* the steps of World and game_loop
WorldSteps ==
    \/ StageEncounter \/ Stage1After \/ Stage2After
    \/ Stage3Choice \/ Stage3After

\* the whole session, explored up to MaxTurns enemy turns
SessionEnemyTurn == rounds < MaxTurns /\ EnemyTurn

Next == PlayerSteps \/ SessionEnemyTurn \/ WorldSteps

Spec == Init /\ [][Next]_vars

\* the session with World and game_loop running on: a stage that can go on
\* does (the choice prompts are answered with one of their options)
SpecSaga == Spec /\ WF_vars(WorldSteps)

\* ------------------------------------------------ one encounter

\* the player entering stage st unharmed and with every item found so far
\* unused; passage is the choice made at the hidden passage of stage 2
EntryPlayer(class, st, passage) ==
    IF st = 3 /\ passage = "A"
    THEN get_item(PlayerSetup(class), passage_item(class))
    ELSE PlayerSetup(class)

\* the encounters SpecEncounter starts: <<class, stage, passage>>
Entries ==
    {<<class, st, "A">> : class \in Classes, st \in 1..3}

InitFrom(entries) ==
    /\ \E e \in entries :
          /\ stage = e[2]
          /\ player = EntryPlayer(e[1], e[2], e[3])
    /\ enemy = NoEnemy
    /\ pc = "stage"
    /\ user_input = NoInput
    /\ action_spent = FALSE
    /\ item_name = NoInput
    /\ combat_result = FALSE
    /\ ending = 0
    /\ ret = NoCall

InitEncounter == InitFrom(Entries) /\ rounds = 0

\* stage_3, option A: the encounter with the Arch-Lich (lines 525-528)
Stage3Fight ==
    /\ pc = "stage"
    /\ stage = 3
    /\ enemy' = ArchLich
    /\ pc' = "loop"
    /\ UNCHANGED <<player, combat, combat_result, world, ret>>

BoundedEnemyTurn == rounds < MaxRounds /\ EnemyTurn

NextEncounter ==
    PlayerSteps \/ BoundedEnemyTurn \/ StageEncounter \/ Stage3Fight

SpecEncounter == InitEncounter /\ [][NextEncounter]_vars

\* ------------------------------------------------ whole encounters

\* the encounters followed to their end: the first stage for every class,
\* and the Arch-Lich met by a Rogue who passed the hidden passage by
LiveEntries ==
    {<<class, 1, "B">> : class \in Classes} \cup {<<Rogue, 3, "B">>}

\* the count of enemy turns is switched off (it starts at its limit), so
\* that an encounter has no bound on its length
InitLive == InitFrom(LiveEntries) /\ rounds = RoundLimit

NextLive == PlayerSteps \/ EnemyTurn \/ StageEncounter \/ Stage3Fight

\* a player action that spends the turn
TurnConsuming ==
    (PlayerAttack \/ PlayerDefend \/ PlayerMagic \/ ItemChoice)
        /\ pc' = "check"

\* an enemy turn whose attack lands
EnemyHits == EnemyTurn /\ player'.current_hp < player.current_hp

\* the item prompt is left, by "cancel" or by a use
LeavesItemPrompt == ItemChoice /\ pc' # "item"

\* the program runs on; the action provider does not stay at the item
\* prompt forever and supplies a turn-consuming action again and again; the
\* enemy's attacks are not dodged forever
Fairness ==
    /\ WF_vars(LoopCheck \/ CheckTermination \/ StageEncounter \/ Stage3Fight)
    /\ WF_vars(LeavesItemPrompt)
    /\ SF_vars(TurnConsuming)
    /\ SF_vars(EnemyHits)

SpecLive == InitLive /\ [][NextLive]_vars /\ Fairness

\* ------------------------------------------------ direct calls

\* largest damage amount handed to a direct call
MaxAmount == 20

\* heal amounts handed to a direct call (the program only heals by 40)
HealAmounts == {1, PotionHeal}

\* the buff values the program ever stores (lines 25, 107, 285)
BuffValues == {0, RoarDebuff, ScrollBuff}

InitUnit ==
    /\ \E class \in Classes, defending \in BOOLEAN, buff \in BuffValues :
          player = [PlayerSetup(class) EXCEPT !.is_defending = defending,
                                             !.temp_defense_buff = buff]
    /\ enemy = NoEnemy
    /\ pc = "unit"
    /\ stage = 1
    /\ user_input = NoInput
    /\ action_spent = FALSE
    /\ item_name = NoInput
    /\ combat_result = FALSE
    /\ ending = 0
    /\ rounds = 0
    /\ ret = NoCall

\* player.take_damage(amount)
CallTakeDamage ==
    /\ pc = "unit"
    /\ \E amount \in 0..MaxAmount :
          /\ player' = take_damage(player, amount)
          /\ ret' = [call |-> "take_damage", arg |-> amount,
                     value |-> take_damage_ret(player, amount)]
    /\ UNCHANGED <<enemy, pc, combat, combat_result, world>>

\* player.heal(amount)
CallHeal ==
    /\ pc = "unit"
    /\ \E amount \in HealAmounts :
          /\ player' = heal(player, amount)
          /\ ret' = [call |-> "heal", arg |-> amount, value |-> 0]
    /\ UNCHANGED <<enemy, pc, combat, combat_result, world>>

\* item.use(player), for each of the four items
CallUse ==
    /\ pc = "unit"
    /\ \E item \in ItemNames :
          /\ player' = ItemUse(item, player)
          /\ ret' = [call |-> "use", arg |-> item,
                     value |-> ItemUseRet(item, player)]
    /\ UNCHANGED <<enemy, pc, combat, combat_result, world>>

\* the attackers of the direct calls of _calculate_damage
Attackers == {MinorBandit, BanditKing, ArchLich}

\* Combat._calculate_damage(attacker, player, attacker.strength)
CallCalculateDamage ==
    /\ pc = "unit"
    /\ \E attacker \in Attackers, die \in D6,
          dodged \in DodgeOutcomes(player) :
       \E is_crit \in CritOutcomes(attacker) :
          /\ player' = calculate_damage(player, attacker.strength,
                                        die, is_crit, dodged)
          /\ ret' = [call |-> "calculate_damage",
                     arg |-> BaseDamage(die, attacker.strength, is_crit),
                     value |-> calculate_damage_ret(player,
                                   attacker.strength, die, is_crit, dodged),
                     is_crit |-> is_crit, dodged |-> dodged]
    /\ UNCHANGED <<enemy, pc, combat, combat_result, world>>

NextUnit == CallTakeDamage \/ CallHeal \/ CallUse \/ CallCalculateDamage

SpecUnit == InitUnit /\ [][NextUnit]_vars

\* ------------------------------------------------ properties

Combatants == {player, enemy}
InEncounter == pc \in {"loop", "await", "item", "check", "enemy"}
TurnTokens == {"attack", "defend", "magic", "item"}
Consumables == ItemNames \ PermanentItems

\* C1: at every point of an encounter, whatever the actions, item uses,
\* enemy moves and dice, 0 <= current_hp <= max_hp for both combatants.
C1_HpInRange ==
    \A c \in Combatants : 0 <= c.current_hp /\ c.current_hp <= c.max_hp

\* C1 witness: the potion was drunk (heal) and a later hit floored the
\* player's HP at 0.
C1_Witness ==
    /\ pc = "after_combat"
    /\ player.current_hp = 0
    /\ HealthPotion \notin player.inventory
    /\ rounds >= 1

\* C2: start_combat returns True only with the enemy at 0 HP and the player
\* above 0, returns False only with the player at 0 HP, the two are never
\* both at 0 HP, and an enemy brought to 0 HP by the player's action ends the
\* encounter in victory at the next check, before any enemy turn.
C2_Outcome ==
    /\ [](pc = "after_combat" /\ combat_result
             => enemy.current_hp = 0 /\ player.current_hp > 0)
    /\ [](pc = "after_combat" /\ ~combat_result => player.current_hp = 0)
    /\ [](InEncounter \/ pc = "after_combat"
             => ~(player.current_hp = 0 /\ enemy.current_hp = 0))
    /\ [][pc = "check" /\ enemy.current_hp = 0
             => pc' = "after_combat" /\ combat_result']_vars

\* C2 witness: a victory returned after the enemy has had a turn.
C2_Witness ==
    /\ pc = "after_combat"
    /\ combat_result
    /\ rounds >= 1
    /\ player.current_hp < player.max_hp

BothAlive == player.current_hp > 0 /\ enemy.current_hp > 0

\* C4: Attack, Defend, the ability and a successful item use always lead to
\* the termination check; the check is followed by the enemy's turn exactly
\* when both combatants are alive; the enemy's turn is a single step
\* entered only from that check, so never twice without a turn-consuming
\* player action in between and never with a combatant at 0 HP; the player
\* is harmed nowhere else.
C4_Alternation ==
    /\ [](pc = "enemy" => BothAlive)
    /\ [][pc = "await" /\ user_input' \in {"attack", "defend", "magic"}
             => pc' = "check"]_vars
    /\ [][pc = "item" /\ action_spent' => pc' = "check"]_vars
    /\ [][pc' = "check"
             => pc \in {"await", "item"} /\ user_input' \in TurnTokens]_vars
    /\ [][pc = "check"
             => pc' = IF BothAlive THEN "enemy" ELSE "after_combat"]_vars
    /\ [][pc' = "enemy" => pc = "check" /\ user_input \in TurnTokens]_vars
    /\ [][pc = "enemy" => pc' = "loop" /\ rounds' = rounds + 1]_vars
    /\ [][rounds' # rounds \/ player'.current_hp < player.current_hp
             => pc = "enemy"]_vars

\* C4 witness: the enemy has had its second turn of the encounter and both
\* combatants are still alive.
C4_Witness ==
    /\ pc = "loop"
    /\ rounds = 2
    /\ BothAlive

\* what a step that costs no turn leaves alone
NoTurnNoChange ==
    /\ player' = player
    /\ enemy' = enemy
    /\ rounds' = rounds
    /\ action_spent' = FALSE

\* C5: a Stats action returns to the prompt of the player's action with
\* every field of both combatants unchanged and no enemy turn taken,
\* however often it is repeated.
C5_StatsFree ==
    [][pc = "await" /\ user_input' = "stats"
          => pc' = "await" /\ NoTurnNoChange]_vars

\* C5 witness: Stats was asked in the middle of a fight, after the player
\* was hurt.
C5_Witness ==
    /\ pc = "await"
    /\ user_input = "stats"
    /\ rounds >= 1
    /\ player.current_hp < player.max_hp

\* C6: an unrecognised token, "item" with an empty inventory, a cancelled
\* item choice, an item name that is not in the inventory and the reuse of
\* an equipped Elven Blade / Arcane Focus change neither combatant, spend no
\* turn and leave the engine at a prompt.
C6_ErrorsFree ==
    /\ [][pc = "await" /\ user_input' = BogusInput
             => pc' = "await" /\ NoTurnNoChange]_vars
    /\ [][pc = "await" /\ user_input' = "item" /\ player.inventory = {}
             => pc' = "await" /\ NoTurnNoChange]_vars
    /\ [][pc = "item" /\ pc' = "await" => NoTurnNoChange]_vars
    /\ [][pc = "item" /\ item_name' \notin player.inventory
             => pc' \in {"item", "await"} /\ NoTurnNoChange]_vars
    /\ [][pc = "item" /\ item_name' \in PermanentItems
                      /\ player.weapon_boost # 0
             => pc' = "item" /\ NoTurnNoChange]_vars

\* C6 witness: the equipped permanent item was chosen again and the item
\* prompt is shown once more.
C6_Witness ==
    /\ pc = "item"
    /\ item_name \in PermanentItems
    /\ item_name \in player.inventory
    /\ player.weapon_boost = WeaponBoost

BaseClass(p) == CHOOSE class \in Classes : class.name = p.name

\* C8 (as claimed): a second use of the Elven Blade, or of the Arcane Focus,
\* on a combatant that already applied it returns False and leaves
\* strength, magic and weapon_boost unchanged.
C8_SecondUseFails ==
    [][/\ ret'.call = "use"
       /\ \/ /\ ret'.arg = ElvenBlade
             /\ player.strength = BaseClass(player).strength + 5
          \/ /\ ret'.arg = ArcaneFocus
             /\ player.magic = BaseClass(player).magic + 5
       => /\ ret'.value = FALSE
          /\ player'.strength = player.strength
          /\ player'.magic = player.magic
          /\ player'.weapon_boost = player.weapon_boost]_vars

\* C9: weapon_boost is 0 or 5, and whatever sequence of Elven Blade and
\* Arcane Focus uses a combatant receives, the items raise at most one of
\* strength and magic, by 5, once.
C9_BoostExclusive ==
    LET ds == player.strength - BaseClass(player).strength
        dm == player.magic - BaseClass(player).magic
    IN /\ player.weapon_boost \in {0, 5}
       /\ <<ds, dm>> \in {<<0, 0>>, <<5, 0>>, <<0, 5>>}
       /\ ds + dm = player.weapon_boost

\* C9 witness: the Arcane Focus was used on a combatant that already holds
\* the boost of the Elven Blade.
C9_Witness ==
    /\ ret.call = "use"
    /\ ret.arg = ArcaneFocus
    /\ player.strength = BaseClass(player).strength + 5
    /\ player.weapon_boost = WeaponBoost

\* C10 (as claimed): equipping the Elven Blade raises the power stat of
\* the basic Attack (strength + weapon_boost) by exactly 5.
C10_BladePlusFive ==
    [][pc = "item" /\ pc' = "check" /\ item_name' = ElvenBlade
          => effective_strength(player') = effective_strength(player) + 5]_vars

\* C11 (as claimed): applying the Arcane Focus, the magic boost, leaves the
\* power stat of the strength-based basic Attack (strength + weapon_boost)
\* as it was before the item was applied.
C11_FocusLeavesAttack ==
    [][pc = "item" /\ pc' = "check" /\ item_name' = ArcaneFocus
          => effective_strength(player') = effective_strength(player)]_vars

\* the take_damage calls the enemy's turn can make on player pl: the target
\* as the call finds it and the amount handed over (lines 252, 259,
\* 270-276, 285-289, 294-297)
EnemyDamageCalls(pl) ==
    LET p == Undefended(pl) IN
    {[move |-> "standard", target |-> p,
      amount |-> BaseDamage(die, enemy.strength, is_crit)] :
        die \in D6, is_crit \in CritOutcomes(enemy)}
    \cup (IF enemy.name = "Minor Bandit"
          THEN {[move |-> "Quick Strike", target |-> p,
                 amount |-> die * enemy.strength] : die \in D4}
          ELSE {})
    \cup (IF enemy.name = "Bandit King"
          THEN {[move |-> "King's Roar",
                 target |-> [p EXCEPT !.temp_defense_buff = RoarDebuff],
                 amount |-> BaseDamage(die, enemy.strength, is_crit)] :
                   die \in D6, is_crit \in CritOutcomes(enemy)}
          ELSE {})
    \cup (IF enemy.name = "Arch-Lich, Final Boss"
          THEN {[move |-> "Arcane Drain", target |-> p,
                 amount |-> die * enemy.magic] : die \in DrainDie}
          ELSE {})

\* the calls other than Quick Strike, which is meant to pass a defence
BlockableCalls(pl) ==
    {h \in EnemyDamageCalls(pl) : h.move # "Quick Strike"}

\* the HP the player loses in a step
HpLost == player.current_hp - player'.current_hp

\* what take_damage subtracts from a target that is defending
DefendedLoss(h) ==
    Min(player.current_hp,
        take_damage_ret([h.target EXCEPT !.is_defending = TRUE], h.amount))

\* C12 (as claimed): in the enemy turn that follows a Defend, a hit that
\* lands on the player costs the halved amount (rounded down, at least 1)
\* of the same hit on a player who did not defend.
C12_DefendHalves ==
    [][pc = "enemy" /\ user_input = "defend"
          => \A h \in BlockableCalls(player) :
                player' = take_damage(h.target, h.amount)
                   => HpLost = DefendedLoss(h)]_vars

\* C13 (as claimed): in the enemy turn that follows the Warrior's Shield
\* Bash, every damage application against the player other than Quick
\* Strike finds is_defending = TRUE and so costs the halved amount.
C13_ShieldBashBlocks ==
    [][/\ pc = "enemy"
       /\ user_input = "magic"
       /\ player.ability_name = "Shield Bash"
       => \A h \in BlockableCalls(player) :
             player' = take_damage(h.target, h.amount)
                => h.target.is_defending /\ HpLost = DefendedLoss(h)]_vars

EnemyTurnIsCall ==
    [][pc = "enemy"
          => \/ player' = Undefended(player)
             \/ enemy.name = "Bandit King"
                /\ player' = [Undefended(player) EXCEPT
                                 !.temp_defense_buff = RoarDebuff]
             \/ \E h \in EnemyDamageCalls(player) :
                   player' = take_damage(h.target, h.amount)]_vars

\* C15 (as claimed): every take_damage call returns what it subtracted
\* from current_hp, also when the mitigated damage exceeds the HP left.
C15_ReturnsSubtracted ==
    [][ret'.call = "take_damage"
          => ret'.value = player.current_hp - player'.current_hp]_vars

\* C16: right after any take_damage call the target's is_defending is
\* FALSE and its temp_defense_buff is 0, whatever the two were before the
\* call and whatever the amount.
C16_FlagsSingleUse ==
    [][ret'.call = "take_damage"
          => ~player'.is_defending /\ player'.temp_defense_buff = 0]_vars

\* C16 witness: a call with amount 20 returned 1, so it found the target
\* defending (20 halved to 10) under the scroll's buff of 15, and both
\* are cleared.
C16_Witness ==
    /\ ret.call = "take_damage"
    /\ ret.arg = 20
    /\ ret.value = 1
    /\ ~player.is_defending
    /\ player.temp_defense_buff = 0

\* C17: a damage resolution whose dodge check succeeds returns 0 and
\* leaves the defender as it was (current_hp, is_defending and
\* temp_defense_buff included: take_damage was not called), with or
\* without a critical hit.
C17_DodgeFrame ==
    [][ret'.call = "calculate_damage" /\ ret'.dodged
          => ret'.value = 0 /\ player' = player]_vars

\* C17 witness: a critical hit was dodged by a defender that is defending
\* under the scroll's buff, and it still is.
C17_Witness ==
    /\ ret.call = "calculate_damage"
    /\ ret.dodged
    /\ ret.is_crit
    /\ player.is_defending
    /\ player.temp_defense_buff = ScrollBuff
    /\ player.current_hp > 0

\* C18: Sneak Attack has no dodge outcome: whatever the enemy's agility and
\* the rolls, it applies its damage through take_damage and the enemy
\* loses HP.
C18_SneakNeverDodged ==
    [][/\ pc = "await"
       /\ user_input' = "magic"
       /\ player.ability_name = "Sneak Attack"
       => /\ enemy'.current_hp < enemy.current_hp
          /\ \E die \in D6, is_crit \in BOOLEAN :
                enemy' = take_damage(enemy,
                             BaseDamage(die, effective_strength(player),
                                        is_crit))]_vars

\* C18 witness: the Rogue's Sneak Attack has hit the Arch-Lich, the enemy
\* with the highest agility (its dodge check can succeed).
C18_Witness ==
    /\ pc = "check"
    /\ user_input = "magic"
    /\ player.ability_name = "Sneak Attack"
    /\ enemy.name = "Arch-Lich, Final Boss"
    /\ TRUE \in DodgeOutcomes(enemy)
    /\ enemy.current_hp < enemy.max_hp

\* C19: an Arcane Bolt whose miss roll is <= 10 leaves the enemy as it
\* was, whatever the die, crit and dodge rolls would have been (the damage
\* resolution is not run), and still spends the turn: the termination
\* check comes next and, nobody having been harmed, the enemy's turn.
C19_BoltMiss ==
    /\ [][/\ pc = "await"
          /\ user_input' = "magic"
          /\ player.ability_name = "Arcane Bolt"
          /\ \E die \in D6, is_crit \in BOOLEAN, dodged \in BOOLEAN :
                ArcaneBolt(TRUE, die, is_crit, dodged)
          => enemy' = enemy /\ action_spent' /\ pc' = "check"]_vars
    /\ [][/\ pc = "check"
          /\ user_input = "magic"
          /\ player.ability_name = "Arcane Bolt"
          /\ BothAlive
          => pc' = "enemy" /\ enemy' = enemy /\ player' = player]_vars

\* C19 witness: after an Arcane Bolt that left the wounded enemy as it was,
\* the enemy's turn has come.
C19_Witness ==
    /\ pc = "enemy"
    /\ user_input = "magic"
    /\ player.ability_name = "Arcane Bolt"
    /\ rounds = 1
    /\ enemy.current_hp < enemy.max_hp

\* C20: every enemy turn of the Arch-Lich is a standard attack, which
\* leaves the Lich as it is, or an Arcane Drain: the player takes
\* die * magic through take_damage, with no crit and no dodge, and the
\* Lich's current_hp becomes min(max_hp, current_hp + d \div 2), d being
\* the value take_damage reported.
C20_DrainHeals ==
    [][pc = "enemy" /\ enemy.name = "Arch-Lich, Final Boss"
          => \/ /\ enemy' = enemy
                /\ \E die \in D6, is_crit \in BOOLEAN, dodged \in BOOLEAN :
                      player' = EnemyStandard(Undefended(player),
                                              die, is_crit, dodged)
             \/ \E die \in DrainDie :
                   LET p == Undefended(player)
                       d == take_damage_ret(p, die * enemy.magic)
                   IN /\ player' = take_damage(p, die * enemy.magic)
                      /\ enemy' = [enemy EXCEPT !.current_hp =
                                      Min(enemy.max_hp, @ + d \div 2)]]_vars

\* C20 witness: the player has lost exactly 72 HP in the first enemy turn,
\* which only an Arcane Drain with the die at 4 does, and the Lich, wounded
\* before, is still below its max_hp after healing.
C20_Witness ==
    /\ pc = "loop"
    /\ enemy.name = "Arch-Lich, Final Boss"
    /\ rounds = 1
    /\ player.current_hp = player.max_hp - 72
    /\ enemy.current_hp < enemy.max_hp
    /\ enemy.current_hp > 36

\* the mitigated damage as the specification words it
Mitigated(defending, buff, amount) ==
    Max(1, (IF defending THEN Max(1, amount \div 2) ELSE amount) - buff)

\* C21: take_damage(amount) computes m = max(1, (max(1, amount div 2) if
\* defending else amount) - buff), sets current_hp to max(0, current_hp - m)
\* and returns m, so m >= 1 whatever Defend and the buff take off, and a
\* call on a combatant with HP > 0 lowers its HP; the same holds of the
\* call a damage resolution makes when the hit is not dodged.
C21_TakeDamageFormula ==
    [][ret'.call = "take_damage"
         \/ (ret'.call = "calculate_damage" /\ ~ret'.dodged)
          => LET m == Mitigated(player.is_defending,
                                player.temp_defense_buff, ret'.arg)
             IN /\ ret'.value = m
                /\ m >= 1
                /\ player'.current_hp = Max(0, player.current_hp - m)
                /\ player.current_hp > 0
                      => player'.current_hp < player.current_hp]_vars

\* C21 witness: a call with amount 0 took the 1 HP that every call takes.
C21_Witness ==
    /\ ret.call = "take_damage"
    /\ ret.arg = 0
    /\ ret.value = 1
    /\ player.current_hp = player.max_hp - 1

PlayerAmounts ==
    LET str == player.strength + player.weapon_boost
        mag == (player.magic * 3) \div 2
    IN {BaseDamage(die, str, is_crit) : die \in D6, is_crit \in BOOLEAN}
       \cup {Max(1, (die * str) \div 2) : die \in D6}
       \cup {BaseDamage(die, mag, is_crit) : die \in D6, is_crit \in BOOLEAN}

GameOver == pc \in {"ended", "lost"}

\* where game_loop and the stage methods act between the encounters
AtWorld == pc \in {"stage", "after_combat"}

\* what is left of the progression: three positions for each stage still to
\* run (its start, its encounter, the part after the encounter)
StageRank ==
    IF GameOver THEN 0
    ELSE 3 * (4 - stage) - (CASE pc = "stage" -> 0
                              [] pc = "after_combat" -> 2
                              [] OTHER -> 1)

\* C24: World.stage only ever goes from n to n + 1, after the encounter of
\* stage n was won; a stage is entered only by that step, so each stage
\* runs at most once and in the order 1, 2, 3; a lost encounter ends the
\* game; stage 3 leads to its encounter, an ending or a loss and is never
\* entered again; after an ending or a loss nothing runs. The progression
\* terminates: between the encounters a step is always possible, every
\* such step lowers StageRank, and no step raises it.
C24_Progression ==
    /\ [](stage \in 1..3)
    /\ [][stage' # stage
             => /\ stage' = stage + 1
                /\ pc = "after_combat" /\ combat_result
                /\ pc' = "stage"]_vars
    /\ [][pc' = "stage" => stage' = stage + 1]_vars
    /\ [][pc = "after_combat" /\ ~combat_result => pc' = "lost"]_vars
    /\ [][stage = 3 /\ pc = "stage" => pc' \in {"loop", "ended", "lost"}]_vars
    /\ [][stage = 3 /\ pc = "after_combat" => GameOver']_vars
    /\ [][GameOver => FALSE]_vars
    /\ [][ending' # ending => stage = 3 /\ pc' = "ended"]_vars
    /\ [](AtWorld => ENABLED WorldSteps)
    /\ [][StageRank' <= StageRank]_vars
    /\ [][AtWorld => StageRank' < StageRank]_vars

\* C24 witness: the three encounters were won one after the other and the
\* heroic ending was shown.
C24_Witness ==
    /\ pc = "ended"
    /\ ending = 1
    /\ stage = 3
    /\ combat_result

\* an encounter that was started never returns (C3 excludes it)
EncounterGoesOn == <>[]InEncounter

\* the same termination as a property of the fair session SpecSaga: every
\* session reaches an ending or a loss unless an encounter never returns
SagaTerminates == <>GameOver \/ EncounterGoesOn

====
